---- MODULE Spec2Model ----
(***************************************************************************)
(* RepoRefinery: the branch clean-up, the large-file scan, the duplicate   *)
(* scan, the ignore-file maintenance and the command-line entry point.     *)
(*                                                                         *)
(* The program is sequential.  Each function is modelled as a small state  *)
(* machine: one action per request, loop iteration or final report.  The   *)
(* remote repository, the local tree and the output of git are the         *)
(* environment; they are drawn in the initial state from bounded sets.     *)
(***************************************************************************)
EXTENDS Integers, Sequences, FiniteSets, TLC

VARIABLES
    \* ---- the remote repository, as the branch clean-up sees it
    listStatus,        \* status of GET {base_url}/branches
    remote,            \* the branch listing: a sequence of branch records
    gh,                \* utils/github_api.get_old_branches: its locals
    rcb,               \* repo_cleaner.get_old_branches: its locals
    \* ---- git's output, as the large-file scan sees it
    revList,           \* "ok" | "error": outcome of git rev-list --objects --all
    objects,           \* the lines of its stdout
    fu,                \* utils/file_utils.list_large_files: its locals
    rcl,               \* repo_cleaner.list_large_files: its locals
    \* ---- the local tree, as the duplicate scan sees it
    tree,              \* the files in os.walk order
    delete_duplicates, \* the argument of remove_duplicate_files
    dup,               \* remove_duplicate_files: its locals and the disk
    \* ---- the ignore file
    gitignore,         \* content of .gitignore (NoFile when it does not exist)
    previous,          \* its content before the last call
    calls,             \* number of calls of optimize_gitignore so far
    \* ---- main
    mainPc,            \* position in repo_cleaner.main
    started,           \* the steps main has started, in order
    ignoreRemote       \* update_gitignore: outcome of its requests

vars == <<listStatus, remote, gh, rcb, revList, objects, fu, rcl, tree,
          delete_duplicates, dup, gitignore, previous, calls, mainPc, started,
          ignoreRemote>>

branchVars == <<listStatus, remote, gh, rcb>>
largeVars  == <<revList, objects, fu, rcl>>
dupVars    == <<tree, delete_duplicates, dup>>
ignoreVars == <<gitignore, previous, calls>>
mainVars   == <<mainPc, started, ignoreRemote>>

\* Python's None, and a value that is not None: an optional value is a
\* sequence of length at most one.
None == <<>>

Some(x) == <<x>>

\* Subsequences of length at most n over S.
SeqUpTo(S, n) == UNION {[1..k -> S] : k \in 0..n}

Range(s) == {s[k] : k \in 1..Len(s)}

(***************************************************************************)
(* Bounds of the model.                                                    *)
(***************************************************************************)
MaxBranches == 3
MaxObjects == 2
MaxFiles == 3
MaxContents == 2
MaxLen == 3
MaxCalls == 2
MainMaxBranches == 1
MainMaxObjects == 1
\* The day the program runs, on the integer time line the dates live on.
Now == 200

(***************************************************************************)
(* Stale branches.                                                         *)
(***************************************************************************)
OLD_BRANCH_CUTOFF_DAYS == 180

cutoff_date == Now - OLD_BRANCH_CUTOFF_DAYS

\* Commit dates around the cutoff: older, equal, newer.
Dates == {cutoff_date - 1, cutoff_date, cutoff_date + 1}

\* One entry of the branch listing together with what the server answers
\* for it: whether the entry carries commit.url, the status of the GET of
\* that url, whether its body holds a well-formed committer date, the date,
\* and the status of the DELETE of the branch's ref.
Branches ==
    [url: {TRUE}, commitStatus: {200}, body: {"ok"}, date: Dates,
     deleteStatus: {204, 403}]
    \cup [url: {TRUE}, commitStatus: {200}, body: {"malformed"},
          date: {cutoff_date - 1}, deleteStatus: {204}]
    \cup [url: {TRUE}, commitStatus: {404}, body: {"ok"},
          date: {cutoff_date - 1}, deleteStatus: {204}]
    \cup [url: {FALSE}, commitStatus: {200}, body: {"ok"},
          date: {cutoff_date - 1}, deleteStatus: {204}]

\* requests' raise_for_status: 4xx and 5xx raise, everything else passes.
RaisesForStatus(status) == status >= 400

\* api_request: the response, or None when the request raised.
api_request(status) == IF RaisesForStatus(status) THEN None ELSE Some(status)

\* get_branches: the parsed listing, or [] when the request failed.
get_branches == IF api_request(listStatus) = None THEN <<>> ELSE remote

\* fetch_commit_date_from_url: the parsed date, or None when the request
\* failed, the body holds no date, or the date does not parse.
fetch_commit_date_from_url(b) ==
    IF api_request(b.commitStatus) = None THEN None
    ELSE IF b.body = "ok" THEN Some(b.date) ELSE None

\* The mutant of GhIsOld: the comparison includes the cutoff itself.
GhIsOld_inclusive(commit_date) ==
    commit_date # None /\ commit_date[1] <= cutoff_date

\* "commit_date and commit_date < cutoff_date" (a datetime is always truthy).
GhIsOld(commit_date) ==
    commit_date # None /\ commit_date[1] < cutoff_date

\* utils/github_api.delete_branch: whether it logs "Deleted branch".
GhDeleteLogged(b) ==
    LET response == api_request(b.deleteStatus)
    IN  response # None /\ response[1] = 204

GhIdle == [pc |-> "idle", branches |-> <<>>, i |-> 1, requested |-> {},
            deleteRequests |-> {}, deleted |-> {},
            old_branches |-> <<>>, report |-> <<>>]

GhStart == [GhIdle EXCEPT !.pc = "start"]

\* The else branches of the loop body: the branch is logged and left alone.
GhSkipped(st) == [st EXCEPT !.i = @ + 1]

\* One iteration of the loop of get_old_branches over branch number st.i.
GhProcessBranch(st) ==
    LET b == st.branches[st.i]
        commit_date == fetch_commit_date_from_url(b)
        asked == [st EXCEPT !.requested = @ \cup {st.i}]
    IN  IF b.url
        THEN IF GhIsOld(commit_date)
             THEN [asked EXCEPT
                     !.deleteRequests = @ \cup {st.i},
                     !.deleted = IF GhDeleteLogged(b) THEN @ \cup {st.i} ELSE @,
                     !.old_branches = Append(@, st.i),
                     !.i = @ + 1]
             ELSE GhSkipped(asked)
        ELSE GhSkipped(st)

GhGetBranches ==
    /\ gh.pc = "start"
    /\ gh' = [gh EXCEPT !.pc = "loop", !.branches = get_branches]
    /\ UNCHANGED <<listStatus, remote, rcb>>
    /\ UNCHANGED <<largeVars, dupVars, ignoreVars, mainVars>>

GhIteration ==
    /\ gh.pc = "loop"
    /\ gh.i <= Len(gh.branches)
    /\ gh' = GhProcessBranch(gh)
    /\ UNCHANGED <<listStatus, remote, rcb>>
    /\ UNCHANGED <<largeVars, dupVars, ignoreVars, mainVars>>

\* The final log line: "Deleted old branches: ..." or "No old branches found."
GhReport ==
    /\ gh.pc = "loop"
    /\ gh.i > Len(gh.branches)
    /\ gh' = [gh EXCEPT !.pc = "done", !.report = gh.old_branches]
    /\ UNCHANGED <<listStatus, remote, rcb>>
    /\ UNCHANGED <<largeVars, dupVars, ignoreVars, mainVars>>

(***************************************************************************)
(* repo_cleaner.get_old_branches: the same clean-up, written against       *)
(* requests directly; nothing catches what the loop body raises.           *)
(***************************************************************************)
RcbIdle == [pc |-> "idle", branches |-> <<>>, i |-> 1, requested |-> {},
            deleteRequests |-> {}, deleted |-> {},
            old_branches |-> <<>>, report |-> <<>>]

RcbStart == [RcbIdle EXCEPT !.pc = "start"]

\* The mutant of RcbCommitFailed: a failed commit request ends the loop.
RcbCommitFailed_break(st) ==
    [st EXCEPT !.requested = @ \cup {st.i}, !.i = Len(st.branches) + 1]

\* "Failed to fetch commit info for branch ...": on to the next branch.
RcbCommitFailed(st) == [st EXCEPT !.requested = @ \cup {st.i}, !.i = @ + 1]

\* One iteration of the loop of get_old_branches over branch number st.i.
\* branch["commit"]["url"] raises KeyError when the entry has no url, and
\* the parse of the body raises KeyError or ValueError when it is malformed.
RcbProcessBranch(st) ==
    LET b == st.branches[st.i]
        asked == [st EXCEPT !.requested = @ \cup {st.i}]
    IN  IF ~b.url THEN [st EXCEPT !.pc = "raised"]
        ELSE IF b.commitStatus = 200
        THEN IF b.body # "ok"
             THEN [st EXCEPT !.requested = @ \cup {st.i}, !.pc = "raised"]
             ELSE IF b.date < cutoff_date
             THEN [asked EXCEPT
                     !.old_branches = Append(@, st.i),
                     !.deleteRequests = @ \cup {st.i},
                     !.deleted = IF b.deleteStatus = 204
                                 THEN @ \cup {st.i} ELSE @,
                     !.i = @ + 1]
             ELSE [asked EXCEPT !.i = @ + 1]
        ELSE RcbCommitFailed(st)

RcbGetBranches ==
    /\ rcb.pc = "start"
    /\ rcb' = IF listStatus = 200
              THEN [rcb EXCEPT !.pc = "loop", !.branches = remote]
              ELSE [rcb EXCEPT !.pc = "done"]
    /\ UNCHANGED <<listStatus, remote, gh>>
    /\ UNCHANGED <<largeVars, dupVars, ignoreVars, mainVars>>

RcbIteration ==
    /\ rcb.pc = "loop"
    /\ rcb.i <= Len(rcb.branches)
    /\ rcb' = RcbProcessBranch(rcb)
    /\ UNCHANGED <<listStatus, remote, gh>>
    /\ UNCHANGED <<largeVars, dupVars, ignoreVars, mainVars>>

\* "Deleted old branches (not updated in the last 6 months): ..."
RcbReport ==
    /\ rcb.pc = "loop"
    /\ rcb.i > Len(rcb.branches)
    /\ rcb' = [rcb EXCEPT !.pc = "done", !.report = rcb.old_branches]
    /\ UNCHANGED <<listStatus, remote, gh>>
    /\ UNCHANGED <<largeVars, dupVars, ignoreVars, mainVars>>

(***************************************************************************)
(* Large files in the history.                                             *)
(***************************************************************************)
size_threshold_mb == 5
file_size_threshold == 5

\* Object sizes in bytes around a threshold given in MB.
Sizes(threshold) == {threshold * 1024 * 1024 + d : d \in {-1, 0, 1}}

\* One line of git rev-list --objects --all together with what
\* git cat-file -s answers for its object: a commit or a root tree is listed
\* by its hash alone, a blob or a subtree with its path.
Objects ==
    [named: {TRUE}, lookup: {"ok"}, size: Sizes(size_threshold_mb)]
    \cup [named: {TRUE}, lookup: {"error"},
          size: {size_threshold_mb * 1024 * 1024 + 1}]
    \cup [named: {FALSE}, lookup: {"ok"},
          size: {size_threshold_mb * 1024 * 1024 + 1}]

\* len(line.split(maxsplit=1))
SplitParts(o) == IF o.named THEN 2 ELSE 1

\* "int(size) / (1024 * 1024) > threshold": the division by 2^20 is exact in
\* binary floating point, so the test is the integer comparison.
IsLarge(size, threshold) == size > threshold * 1024 * 1024

FuIdle == [pc |-> "idle", i |-> 1, compared |-> {}, large_files |-> <<>>]

FuStart == [FuIdle EXCEPT !.pc = "start"]

\* One iteration of the loop of utils/file_utils.list_large_files.  A
\* failing cat-file raises CalledProcessError, which the handler around the
\* whole loop catches: the function logs it and returns what it has.
FuProcessLine(st) ==
    LET o == objects[st.i]
    IN  IF SplitParts(o) < 2 THEN [st EXCEPT !.i = @ + 1]
        ELSE IF o.lookup = "error" THEN [st EXCEPT !.pc = "returned"]
        ELSE [st EXCEPT
                !.compared = @ \cup {st.i},
                !.large_files = IF IsLarge(o.size, size_threshold_mb)
                                THEN Append(@, st.i) ELSE @,
                !.i = @ + 1]

FuRevList ==
    /\ fu.pc = "start"
    /\ fu' = [fu EXCEPT !.pc = IF revList = "ok" THEN "loop" ELSE "returned"]
    /\ UNCHANGED <<revList, objects, rcl>>
    /\ UNCHANGED <<branchVars, dupVars, ignoreVars, mainVars>>

FuIteration ==
    /\ fu.pc = "loop"
    /\ fu.i <= Len(objects)
    /\ fu' = FuProcessLine(fu)
    /\ UNCHANGED <<revList, objects, rcl>>
    /\ UNCHANGED <<branchVars, dupVars, ignoreVars, mainVars>>

FuReturn ==
    /\ fu.pc = "loop"
    /\ fu.i > Len(objects)
    /\ fu' = [fu EXCEPT !.pc = "returned"]
    /\ UNCHANGED <<revList, objects, rcl>>
    /\ UNCHANGED <<branchVars, dupVars, ignoreVars, mainVars>>

RclIdle == [pc |-> "idle", i |-> 1, compared |-> {}, large_files |-> <<>>,
            printed |-> <<>>]

RclStart == [RclIdle EXCEPT !.pc = "start"]

\* One iteration of the loop of repo_cleaner.list_large_files.  Unpacking
\* a line without a filename into two names raises ValueError, which
\* nothing catches; a failing cat-file raises CalledProcessError, whose
\* handler prints the error in place of the results.
RclProcessLine(st) ==
    LET o == objects[st.i]
    IN  IF SplitParts(o) # 2 THEN [st EXCEPT !.pc = "raised"]
        ELSE IF o.lookup = "error" THEN [st EXCEPT !.pc = "done"]
        ELSE [st EXCEPT
                !.compared = @ \cup {st.i},
                !.large_files = IF IsLarge(o.size, file_size_threshold)
                                THEN Append(@, st.i) ELSE @,
                !.i = @ + 1]

RclRevList ==
    /\ rcl.pc = "start"
    /\ rcl' = [rcl EXCEPT !.pc = IF revList = "ok" THEN "loop" ELSE "done"]
    /\ UNCHANGED <<revList, objects, fu>>
    /\ UNCHANGED <<branchVars, dupVars, ignoreVars, mainVars>>

RclIteration ==
    /\ rcl.pc = "loop"
    /\ rcl.i <= Len(objects)
    /\ rcl' = RclProcessLine(rcl)
    /\ UNCHANGED <<revList, objects, fu>>
    /\ UNCHANGED <<branchVars, dupVars, ignoreVars, mainVars>>

\* "Large files in the repository: ..." or "No large files found ..."
RclPrint ==
    /\ rcl.pc = "loop"
    /\ rcl.i > Len(objects)
    /\ rcl' = [rcl EXCEPT !.pc = "done", !.printed = rcl.large_files]
    /\ UNCHANGED <<revList, objects, fu>>
    /\ UNCHANGED <<branchVars, dupVars, ignoreVars, mainVars>>

(***************************************************************************)
(* Duplicate files.                                                        *)
(***************************************************************************)
\* One file of the tree: its content, whether it can be opened for reading
\* and whether os.remove succeeds on it.
Files == [content: 1..MaxContents, readable: BOOLEAN, removable: BOOLEAN]

\* The MD5 digest of a content, as a hexadecimal string: distinct contents
\* of the model have distinct digests.
MD5(content) == "md5-" \o ToString(content)

\* hash_file: the digest, or None when the file cannot be read.
hash_file(f) == IF f.readable THEN Some(MD5(f.content)) ELSE None

DupIdle == [pc |-> "idle", i |-> 1, file_hashes |-> <<>>, duplicates |-> <<>>,
            error_files |-> <<>>, removed |-> {}]

DupStart == [DupIdle EXCEPT !.pc = "walk"]

\* The mutant of DupFound: the duplicate is removed whatever the flag says.
DupFound_always_removes(st, f, delete) ==
    LET listed == [st EXCEPT !.duplicates = Append(@, st.i), !.i = @ + 1]
    IN  IF f.removable THEN [listed EXCEPT !.removed = @ \cup {st.i}]
        ELSE [listed EXCEPT !.error_files = Append(@, st.i)]

\* The hash is already in file_hashes: the file is listed and, when asked,
\* removed; an os.remove that fails raises OSError (IOError is its alias),
\* which the handler of the loop body catches.
DupFound(st, f, delete) ==
    LET listed == [st EXCEPT !.duplicates = Append(@, st.i), !.i = @ + 1]
    IN  IF ~delete THEN listed
        ELSE IF f.removable THEN [listed EXCEPT !.removed = @ \cup {st.i}]
        ELSE [listed EXCEPT !.error_files = Append(@, st.i)]

\* One iteration of the walk of remove_duplicate_files over file st.i.
\* hash_file raises nothing, so the handler of the loop body is reached
\* from os.remove alone; None is a key of file_hashes like any digest.
DupVisitFile(st, f, delete) ==
    LET file_hash == hash_file(f)
    IN  IF file_hash \in DOMAIN st.file_hashes
        THEN DupFound(st, f, delete)
        ELSE [st EXCEPT !.file_hashes = (file_hash :> st.i) @@ @, !.i = @ + 1]

DupIteration ==
    /\ dup.pc = "walk"
    /\ dup.i <= Len(tree)
    /\ dup' = DupVisitFile(dup, tree[dup.i], delete_duplicates)
    /\ UNCHANGED <<tree, delete_duplicates>>
    /\ UNCHANGED <<branchVars, largeVars, ignoreVars, mainVars>>

DupReturn ==
    /\ dup.pc = "walk"
    /\ dup.i > Len(tree)
    /\ dup' = [dup EXCEPT !.pc = "returned"]
    /\ UNCHANGED <<tree, delete_duplicates>>
    /\ UNCHANGED <<branchVars, largeVars, ignoreVars, mainVars>>

\* remove_duplicate_files run to its end on a tree: what it returns and
\* what it leaves on disk.
RECURSIVE DupWalk(_, _, _)
DupWalk(st, files, delete) ==
    IF st.i > Len(files) THEN st
    ELSE DupWalk(DupVisitFile(st, files[st.i], delete), files, delete)

(***************************************************************************)
(* The ignore file.  Its text is a sequence of tokens: a line break, a     *)
(* blank, or a word (a run of other characters, such as a pattern).        *)
(***************************************************************************)
NL == "\n"
SP == " "
Whitespace == {NL, SP}

\* The line write() puts before the patterns it appends.
Header == "# Optimized entries added by optimize_gitignore"

common_patterns ==
    << "*.DS_Store", "Thumbs.db", ".vscode/", ".idea/", "*.iml", "*.suo",
       "*.user", "*.sln.docstates", "*.pyc", "*.pyo", "__pycache__/", "*.pyd",
       "*.pdb", "*.egg-info/", "node_modules/", "npm-debug.log*",
       "yarn-debug.log*", "yarn-error.log*", "*.log", "*.tmp", "*.bak",
       "*.swp", "*.swo" >>

\* The tokens the initial ignore files are written in.
Alphabet == {NL, SP, "*.log", "*.swo", "build/"}

NoFile == [exists |-> FALSE, text |-> <<>>]

\* Position of the first line break of a text, 0 when it has none.
FirstBreak(text) ==
    IF \E k \in 1..Len(text) : text[k] = NL
    THEN CHOOSE k \in 1..Len(text) :
            text[k] = NL /\ \A j \in 1..(k - 1) : text[j] # NL
    ELSE 0

\* "for line in f": the lines of a text, each with its line break.
RECURSIVE FileLines(_)
FileLines(text) ==
    IF text = <<>> THEN <<>>
    ELSE LET k == FirstBreak(text)
         IN  IF k = 0 THEN <<text>>
             ELSE <<SubSeq(text, 1, k)>>
                  \o FileLines(SubSeq(text, k + 1, Len(text)))

\* str.strip: without leading and trailing whitespace.
RECURSIVE strip(_)
strip(line) ==
    IF line = <<>> THEN line
    ELSE IF Head(line) \in Whitespace THEN strip(Tail(line))
    ELSE IF line[Len(line)] \in Whitespace
    THEN strip(SubSeq(line, 1, Len(line) - 1))
    ELSE line

\* The mutant of existing_patterns: the lines are taken as read.
existing_patterns_unstripped(file) ==
    IF file.exists THEN Range(FileLines(file.text)) ELSE {}

\* set(line.strip() for line in f if line.strip()), or set() without a file.
existing_patterns(file) ==
    IF file.exists
    THEN {strip(line) : line \in
            {l \in Range(FileLines(file.text)) : strip(l) # <<>>}}
    ELSE {}

\* The patterns of common_patterns[k..] that are not in existing, in order.
RECURSIVE new_patterns(_, _)
new_patterns(existing, k) ==
    IF k > Len(common_patterns) THEN <<>>
    ELSE IF <<common_patterns[k]>> \in existing
    THEN new_patterns(existing, k + 1)
    ELSE <<common_patterns[k]>> \o new_patterns(existing, k + 1)

\* What the loop of write() calls appends: each pattern and a line break.
RECURSIVE PatternLines(_)
PatternLines(patterns) ==
    IF patterns = <<>> THEN <<>>
    ELSE <<Head(patterns), NL>> \o PatternLines(Tail(patterns))

\* optimize_gitignore: the file after the call (open(..., "a") creates it).
optimize_gitignore(file) ==
    LET missing == new_patterns(existing_patterns(file), 1)
    IN  IF missing # <<>>
        THEN [exists |-> TRUE,
              text |-> file.text \o <<NL, Header, NL>> \o PatternLines(missing)]
        ELSE file

OptimizeGitignore ==
    /\ calls < MaxCalls
    /\ previous' = gitignore
    /\ gitignore' = optimize_gitignore(gitignore)
    /\ calls' = calls + 1
    /\ UNCHANGED <<branchVars, largeVars, dupVars, mainVars>>

(***************************************************************************)
(* repo_cleaner.main: the three steps, one after the other.  An exception  *)
(* a step raises is caught nowhere and ends the run.                       *)
(***************************************************************************)
MainGetOldBranches ==
    /\ mainPc = "start"
    /\ mainPc' = "get_old_branches"
    /\ started' = Append(started, "get_old_branches")
    /\ rcb' = RcbStart
    /\ UNCHANGED <<listStatus, remote, gh, ignoreRemote>>
    /\ UNCHANGED <<largeVars, dupVars, ignoreVars>>

MainListLargeFiles ==
    /\ mainPc = "get_old_branches"
    /\ rcb.pc = "done"
    /\ mainPc' = "list_large_files"
    /\ started' = Append(started, "list_large_files")
    /\ rcl' = RclStart
    /\ UNCHANGED <<revList, objects, fu, ignoreRemote>>
    /\ UNCHANGED <<branchVars, dupVars, ignoreVars>>

\* update_gitignore: GET the file, PUT the new content (with the sha when
\* the file exists), report.
MainUpdateGitignore ==
    /\ mainPc = "list_large_files"
    /\ rcl.pc = "done"
    /\ mainPc' = "exited"
    /\ started' = Append(started, "update_gitignore")
    /\ \E get \in {200, 404}, put \in {200, 201, 422} :
          ignoreRemote' = [get |-> get, put |-> put, sha |-> get = 200,
                           updated |-> put \in {200, 201}]
    /\ UNCHANGED <<branchVars, largeVars, dupVars, ignoreVars>>

\* The traceback: the exception of a step leaves main.
MainRaised ==
    /\ \/ mainPc = "get_old_branches" /\ rcb.pc = "raised"
       \/ mainPc = "list_large_files" /\ rcl.pc = "raised"
    /\ mainPc' = "aborted"
    /\ UNCHANGED <<started, ignoreRemote>>
    /\ UNCHANGED <<branchVars, largeVars, dupVars, ignoreVars>>

(***************************************************************************)
(* Specifications: one per function under study.  The parts of the state   *)
(* a specification does not use stay at their idle values.                 *)
(***************************************************************************)
IdleBranches ==
    listStatus = 200 /\ remote = <<>> /\ gh = GhIdle /\ rcb = RcbIdle

IdleLarge ==
    revList = "ok" /\ objects = <<>> /\ fu = FuIdle /\ rcl = RclIdle

IdleDup == tree = <<>> /\ delete_duplicates = FALSE /\ dup = DupIdle

IdleIgnore == gitignore = NoFile /\ previous = NoFile /\ calls = 0

IdleMain ==
    /\ mainPc = "idle"
    /\ started = <<>>
    /\ ignoreRemote = [get |-> 0, put |-> 0, sha |-> FALSE, updated |-> FALSE]

\* Both get_old_branches against the same remote repository.
InitBranches ==
    /\ listStatus \in {200, 404}
    /\ remote \in SeqUpTo(Branches, MaxBranches)
    /\ gh = GhStart
    /\ rcb = RcbStart
    /\ IdleLarge /\ IdleDup /\ IdleIgnore /\ IdleMain

NextBranches ==
    \/ GhGetBranches
    \/ GhIteration
    \/ GhReport
    \/ RcbGetBranches
    \/ RcbIteration
    \/ RcbReport

SpecBranches == InitBranches /\ [][NextBranches]_vars

\* Both list_large_files against the same output of git.
InitLarge ==
    /\ revList \in {"ok", "error"}
    /\ objects \in SeqUpTo(Objects, MaxObjects)
    /\ fu = FuStart
    /\ rcl = RclStart
    /\ IdleBranches /\ IdleDup /\ IdleIgnore /\ IdleMain

NextLarge ==
    \/ FuRevList
    \/ FuIteration
    \/ FuReturn
    \/ RclRevList
    \/ RclIteration
    \/ RclPrint

SpecLarge == InitLarge /\ [][NextLarge]_vars

\* remove_duplicate_files on a tree.
InitDup ==
    /\ tree \in SeqUpTo(Files, MaxFiles)
    /\ delete_duplicates \in BOOLEAN
    /\ dup = DupStart
    /\ IdleBranches /\ IdleLarge /\ IdleIgnore /\ IdleMain

NextDup == DupIteration \/ DupReturn

SpecDup == InitDup /\ [][NextDup]_vars

\* optimize_gitignore, called again and again on an ignore file.
InitIgnore ==
    /\ gitignore \in {NoFile}
          \cup {[exists |-> TRUE, text |-> t] : t \in SeqUpTo(Alphabet, MaxLen)}
    /\ previous = gitignore
    /\ calls = 0
    /\ IdleBranches /\ IdleLarge /\ IdleDup /\ IdleMain

NextIgnore == OptimizeGitignore

SpecIgnore == InitIgnore /\ [][NextIgnore]_vars

\* main, from its first step to its exit.
InitMain ==
    /\ listStatus \in {200, 404}
    /\ remote \in SeqUpTo(Branches, MainMaxBranches)
    /\ revList \in {"ok", "error"}
    /\ objects \in SeqUpTo(Objects, MainMaxObjects)
    /\ gh = GhIdle /\ rcb = RcbIdle /\ fu = FuIdle /\ rcl = RclIdle
    /\ mainPc = "start"
    /\ started = <<>>
    /\ ignoreRemote = [get |-> 0, put |-> 0, sha |-> FALSE, updated |-> FALSE]
    /\ IdleDup /\ IdleIgnore

NextMain ==
    \/ MainGetOldBranches
    \/ RcbGetBranches
    \/ RcbIteration
    \/ RcbReport
    \/ MainListLargeFiles
    \/ RclRevList
    \/ RclIteration
    \/ RclPrint
    \/ MainUpdateGitignore
    \/ MainRaised

SpecMain == InitMain /\ [][NextMain]_vars

(***************************************************************************)
(* Properties of get_old_branches (SpecBranches).                          *)
(***************************************************************************)
\* The commit date of branch i of a run's listing was fetched successfully.
Fetched(st, i) ==
    /\ i \in st.requested
    /\ st.branches[i].commitStatus = 200
    /\ st.branches[i].body = "ok"

DeleteIffFetchedAndOlder(st) ==
    /\ st.deleteRequests \subseteq 1..Len(st.branches)
    /\ \A i \in 1..Len(st.branches) :
          /\ i \in st.deleteRequests
                <=> (Fetched(st, i) /\ st.branches[i].date < cutoff_date)
          /\ (Fetched(st, i) /\ st.branches[i].date >= cutoff_date)
                => i \notin st.deleteRequests

\* C1: in both get_old_branches, at every moment, a delete request has been
\* issued for a listed branch exactly when its commit date was fetched
\* successfully and is strictly earlier than the cutoff; a branch whose date
\* is the cutoff or later has no delete request.
C1_DeleteIffFetchedAndOlder ==
    DeleteIffFetchedAndOlder(gh) /\ DeleteIffFetchedAndOlder(rcb)

\* Both runs are over; one branch older than the cutoff was sent a delete
\* request by both and one branch dated exactly at the cutoff was fetched.
C1_Witness ==
    /\ gh.pc = "done" /\ rcb.pc = "done"
    /\ \E i, j \in 1..Len(remote) :
          /\ i \in gh.deleteRequests /\ i \in rcb.deleteRequests
          /\ remote[j].date = cutoff_date
          /\ Fetched(gh, j) /\ Fetched(rcb, j)

\* The entry of the listing is as the hosting API documents it: it has a
\* commit url, and a 200 answer to it holds a committer date.
WellFormed(b) == b.url /\ (b.commitStatus = 200 => b.body = "ok")

AllHandled(st) ==
    \A i \in 1..Len(st.branches) :
        st.branches[i].url =>
            /\ i \in st.requested
            /\ (Fetched(st, i) /\ st.branches[i].date < cutoff_date)
                  => i \in st.deleteRequests

\* C4: a commit request answered with a non-2xx status and a failed delete
\* request never end the loop: utils/github_api.get_old_branches never
\* raises, repo_cleaner.get_old_branches raises only at an entry that is
\* not well formed, and a run that reaches its report has requested the
\* commit date of every listed branch (that has a commit url) and issued the
\* delete request of every one fetched and older than the cutoff.
C4_FailureAffectsOnlyItsBranch ==
    /\ gh.pc # "raised"
    /\ gh.pc = "done" => AllHandled(gh)
    /\ rcb.pc = "raised" => ~WellFormed(rcb.branches[rcb.i])
    /\ rcb.pc = "done" => AllHandled(rcb)

\* Both runs are over; an earlier branch failed (its commit request got a
\* 404, or its delete request a 403) and a later one was sent its delete
\* request by both.
C4_Witness ==
    /\ gh.pc = "done" /\ rcb.pc = "done"
    /\ \E i, j, k \in 1..Len(remote) :
          /\ i < k /\ j < k
          /\ remote[i].commitStatus = 404
          /\ remote[j].deleteStatus = 403 /\ j \in rcb.deleteRequests
          /\ k \in gh.deleteRequests /\ k \in rcb.deleteRequests

\* C9: a branch is named in the final report of deleted branches only if
\* its delete request succeeded.
C9_ReportedOnlyIfDeleted ==
    /\ Range(gh.report) \subseteq gh.deleted
    /\ Range(rcb.report) \subseteq rcb.deleted

(***************************************************************************)
(* Properties of list_large_files (SpecLarge).                             *)
(***************************************************************************)
\* The named objects whose size lookup succeeds.
Sized == {i \in 1..Len(objects) : objects[i].named /\ objects[i].lookup = "ok"}

LargerThan(threshold) ==
    {i \in 1..Len(objects) :
        objects[i].named /\ objects[i].size > threshold * 1024 * 1024}

\* C5: when the size lookup of one object fails, that object is skipped and
\* the remaining ones are still compared: the result of
\* utils/file_utils.list_large_files holds every object above the threshold
\* whose lookup succeeded.
C5_LookupFailureSkipsOneObject ==
    (fu.pc = "returned" /\ revList = "ok") =>
        /\ fu.compared = Sized
        /\ Range(fu.large_files) = Sized \cap LargerThan(size_threshold_mb)

\* C10: on every listing (all size lookups succeeding), lines without a
\* filename included, both list_large_files finish normally and select
\* exactly the named objects above the threshold.
C10_SameLargeFiles ==
    (/\ revList = "ok"
     /\ \A i \in 1..Len(objects) : objects[i].lookup = "ok"
     /\ fu.pc = "returned"
     /\ rcl.pc \in {"done", "raised"}) =>
        /\ rcl.pc = "done"
        /\ Range(fu.large_files) = LargerThan(size_threshold_mb)
        /\ rcl.printed = fu.large_files

(***************************************************************************)
(* Properties of remove_duplicate_files (SpecDup).                         *)
(***************************************************************************)
\* C2: a file that cannot be read is never listed as a duplicate and never
\* removed, however many unreadable files the tree holds.
C2_UnreadableSkipped ==
    \A i \in 1..Len(tree) :
        ~tree[i].readable =>
            i \notin Range(dup.duplicates) /\ i \notin dup.removed

\* The files with the content of a file visited earlier in the walk.
LaterCopies ==
    {i \in 1..Len(tree) : \E j \in 1..(i - 1) :
        tree[j].content = tree[i].content}

\* C3: the returned list is exactly the files whose content is that of a
\* file visited earlier; the first file of each content is neither listed
\* nor removed.
C3_ExactlyLaterCopies ==
    /\ dup.removed \subseteq LaterCopies
    /\ dup.pc = "returned" => Range(dup.duplicates) = LaterCopies

IsPrefix(s, t) == Len(s) <= Len(t) /\ SubSeq(t, 1, Len(s)) = s

\* The word is, alone, a line of the text.
IsLineOf(word, text) ==
    \E l \in Range(FileLines(text)) : l = <<word>> \/ l = <<word, NL>>

\* What the last call appended.
Appended == SubSeq(gitignore.text, Len(previous.text) + 1, Len(gitignore.text))

\* C7: a call keeps the previous content as a prefix of the new one, appends
\* no pattern that was already a line of the file, and leaves a file which
\* a further call does not change.
C7_AppendOnlyIdempotent ==
    calls >= 1 =>
        /\ IsPrefix(previous.text, gitignore.text)
        /\ \A k \in 1..Len(common_patterns) :
              IsLineOf(common_patterns[k], previous.text)
                 => ~IsLineOf(common_patterns[k], Appended)
        /\ optimize_gitignore(gitignore) = gitignore

\* A first call appended patterns to a file that already held one of them
\* as a line.
C7_Witness ==
    /\ calls = 1
    /\ previous.exists
    /\ IsLineOf("*.log", previous.text)
    /\ Appended # <<>>
    /\ IsLineOf("*.swo", Appended)

(***************************************************************************)
(* Properties of main (SpecMain).                                          *)
(***************************************************************************)
Steps == <<"get_old_branches", "list_large_files", "update_gitignore">>

\* C6: the steps start in the order get_old_branches, list_large_files,
\* update_gitignore, and a run over well-formed branch entries does not end
\* before all three have started, whatever the listing, the deletes and the
\* output of the object listing.
C6_AllStepsStarted ==
    /\ IsPrefix(started, Steps)
    /\ (/\ mainPc \in {"exited", "aborted"}
        /\ \A i \in 1..Len(remote) : WellFormed(remote[i])) => started = Steps

====
